---- MODULE Spec2Model ----
(***************************************************************************)
(* Model of the retrieval-augmented pipeline of law-rag-system:            *)
(*   databases/milvus_db.py   MilvusLawSearcher.search_similar_laws        *)
(*   aitools/llm.py           LLMHelper (question generation, extraction,  *)
(*                            synthesis)                                   *)
(*   aitools/embedder.py      QueryEmbedder.encode_queries                 *)
(*   searchers/search.py      ProLawRAGSearch (the three request handlers) *)
(* One behaviour is one ProLawRAGSearch instance serving one request; the  *)
(* external services (LLM, embedding model, Milvus) answer                  *)
(* nondeterministically, the Milvus content is fixed per behaviour.        *)
(***************************************************************************)
EXTENDS Integers, Sequences, FiniteSets, TLC

----------------------------------------------------------------------------
(* Bounds of the model *)

\* similarity scores are 1..MaxScore (a higher score is a closer passage)
MaxScore == 2
\* the configured top_k ranges over 1..MaxTopK
MaxTopK == 2
\* the configured n_llm_questions ranges over 1..MaxQuestions, and the LLM
\* returns between 0 and MaxQuestions questions
MaxQuestions == 2
\* the extractor returns between 0 and MaxParagraphs paragraphs
MaxParagraphs == 2

Scores == 1..MaxScore

\* the texts that occur as user query, generated question and paragraph
QueryTexts == {"q1", "q2"}

\* the user's question (q1 and q2 are interchangeable: the store's scores
\* are chosen freely for both)
UserQuery == "q1"

Types == {"base", "pro", "search"}
Kinds == {"text", "doc", "image"}
Langs == {"ru", "kg"}

\* Python's None, where a list or a string is expected
None == <<"None">>

\* Python's `not x` for an Optional list or string
Falsy(x) == x = None \/ Len(x) = 0

\* the empty string
EmptyString == <<>>

\* a variant of NoDocData: `if doc_data is None`
NoDocDataNoneOnly(d) == d = None

\* `if not doc_data`, lines 177 and 263 of searchers/search.py
NoDocData(d) == Falsy(d)

\* a variant of NoQuestions: `if llm_questions is None`
NoQuestionsNoneOnly(q) == q = None

\* `if not llm_questions`, lines 118, 194 and 280
NoQuestions(q) == Falsy(q)

\* a variant of OrEmpty: `return response`
OrEmptyDropped(r) == r

\* `response or ""`, lines 146, 232 and 318
OrEmpty(r) == IF Falsy(r) THEN EmptyString ELSE r

----------------------------------------------------------------------------
(* The state of one ProLawRAGSearch instance and of the request it serves *)

VARIABLES
    top_k,            \* self._top_k
    n_llm_questions,  \* self._n_llm_questions
    lang,             \* the request's language
    milvus,           \* the content of the Milvus collections
    pc,               \* where the handler is
    kind,             \* which handler runs: text, doc or image
    type,             \* the request's mode
    doc_data,         \* the extracted paragraphs
    para,             \* the index of the paragraph the pro loop is at
    llm_questions,    \* the questions of the last expansion
    query_vectors,    \* the vectors of the last encoding
    all_results,      \* the pro loop's accumulated results
    results,          \* the result list
    response,         \* the returned string, once pc = "done"
    calls,            \* the calls made so far, in order
    llm_answer        \* the provider's answer to the last question prompt
                      \* (kept by the expander's specification only)

\* The state outside ProLawRAGSearch: the users table behind UserRepository
\* and the bot's handlers
VARIABLES
    users,            \* the rows of the users table, in insertion order
    db_log,           \* the update_balance calls made so far, in order
    fsm,              \* the user's UserState in the dispatcher's storage
    events,           \* the settings handlers run so far, in order
    tasks,            \* the query handlers of the user, each a task of the loop
    doc_paragraphs,   \* the paragraphs of the DOCX file given to the parser
    doc_loads,        \* whether Document(file_path) loads the file
    language,         \* the parser's language
    articles,         \* what parse_document returned
    parsed,           \* whether parse_document has returned
    long_text,        \* the text given to send_long_message
    max_length,       \* the max_length given to send_long_message
    offset,           \* send_long_message's loop variable i
    sent,             \* the messages sent so far, in order
    sender_pc         \* where send_long_message is

repository_vars == <<users, db_log>>
settings_vars == <<fsm, events>>
query_vars == <<tasks>>
parser_vars == <<doc_paragraphs, doc_loads, language, articles, parsed>>
sender_vars == <<long_text, max_length, offset, sent, sender_pc>>
offline_vars == <<parser_vars, sender_vars>>

\* what a request to ProLawRAGSearch never touches
outside_vars == <<repository_vars, settings_vars, query_vars, offline_vars>>

\* no call of the repository yet, on an empty table
RepositoryIdle ==
    /\ users = <<>>
    /\ db_log = <<>>

\* no settings handler has run
SettingsIdle ==
    /\ fsm = "none"
    /\ events = <<>>

\* no query handler was started
QueryIdle == tasks = <<>>

\* the parser was not called
ParserIdle ==
    /\ doc_paragraphs = <<>>
    /\ doc_loads = TRUE
    /\ language = "ru"
    /\ articles = <<>>
    /\ parsed = FALSE

\* send_long_message was not called
SenderIdle ==
    /\ long_text = <<>>
    /\ max_length = 1
    /\ offset = 0
    /\ sent = <<>>
    /\ sender_pc = "idle"

OfflineIdle == ParserIdle /\ SenderIdle

\* the state outside ProLawRAGSearch while only a request is looked at
OutsideIdle == RepositoryIdle /\ SettingsIdle /\ QueryIdle /\ OfflineIdle

vars == <<top_k, n_llm_questions, lang, milvus, pc, kind, type, doc_data, para,
          llm_questions, query_vectors, all_results, results, response, calls,
          llm_answer, outside_vars>>

config_vars == <<top_k, n_llm_questions, lang, milvus, llm_answer, outside_vars>>

\* the request's own state
request_vars == <<top_k, n_llm_questions, lang, milvus, pc, kind, type, doc_data,
                  para, llm_questions, query_vectors, all_results, results,
                  response, calls, llm_answer>>

----------------------------------------------------------------------------
(* Sequences *)

Min(a, b) == IF a <= b THEN a ELSE b

\* Python's s[:n]
Take(s, n) == SubSeq(s, 1, Min(n, Len(s)))

\* all sequences over S of length 0..n
RECURSIVE SeqsUpTo(_, _)
SeqsUpTo(S, n) ==
    IF n = 0 THEN {<<>>}
    ELSE LET shorter == SeqsUpTo(S, n - 1)
         IN  shorter \cup {Append(s, x) : s \in {t \in shorter : Len(t) = n - 1}, x \in S}

\* the concatenation of a sequence of sequences
RECURSIVE Flatten(_)
Flatten(ss) == IF ss = <<>> THEN <<>> ELSE Head(ss) \o Flatten(Tail(ss))

----------------------------------------------------------------------------
(* The Milvus store *)

COLLECTION_RU == "law_collection"
COLLECTION_KG == "law_collection_kg"

\* the rows that can be in a collection; rows 1 and 2 hold the same article
\* text under different sources
Entity(id) ==
    CASE id = 1 -> [source_doc |-> "d1", section |-> "s1", chapter |-> "c1",
                    article_title |-> "t1", article_text |-> "A"]
      [] id = 2 -> [source_doc |-> "d2", section |-> "s1", chapter |-> "c1",
                    article_title |-> "t1", article_text |-> "A"]
      [] id = 3 -> [source_doc |-> "d1", section |-> "s1", chapter |-> "c2",
                    article_title |-> "t2", article_text |-> "B"]
      [] id = 4 -> [source_doc |-> "k1", section |-> "s1", chapter |-> "c1",
                    article_title |-> "t1", article_text |-> "K"]

RowIds(coll) == IF coll = COLLECTION_KG THEN {4} ELSE {1, 2, 3}

\* QueryEmbedder.encode_queries maps a text to its vector: equal texts give
\* equal vectors, and the vector is not the text
Encode(q) == <<"vec", q>>
Vectors == {Encode(q) : q \in QueryTexts}

\* the content of one collection: the rows it holds and the cosine
\* similarity of each of them to every query vector
Contents(coll) ==
    UNION {[rows : {R}, sim : [Vectors -> [R -> Scores]]] : R \in SUBSET RowIds(coll)}

\* a collection nobody varies: every row, all at the top score
FullContent(coll) ==
    [rows |-> RowIds(coll),
     sim |-> [v \in Vectors |-> [r \in RowIds(coll) |-> MaxScore]]]

\* a variant of CollectionName: the Russian collection for every language
CollectionNameRuOnly(l) == COLLECTION_RU

\* line 92 of search_similar_laws: the collection of language l
CollectionName(l) == IF l = "kg" THEN COLLECTION_KG ELSE COLLECTION_RU

\* the stores a request in language l is checked against: the collection of
\* l holds any content, the other collection is full
StoresFor(l) ==
    {[c \in {COLLECTION_RU, COLLECTION_KG} |->
        IF c = CollectionName(l) THEN content ELSE FullContent(c)] :
     content \in Contents(CollectionName(l))}

\* MilvusClient.search for one vector: the rows of the collection by
\* descending similarity (rows of equal similarity in row order)
RECURSIVE Ranking(_, _)
Ranking(content, v) ==
    IF content.rows = {} THEN <<>>
    ELSE LET best == CHOOSE r \in content.rows :
                        \A o \in content.rows :
                            \/ content.sim[v][r] > content.sim[v][o]
                            \/ content.sim[v][r] = content.sim[v][o] /\ r <= o
             rest == [rows |-> content.rows \ {best},
                      sim |-> [w \in Vectors |->
                                 [r \in content.rows \ {best} |-> content.sim[w][r]]]]
         IN  <<[distance |-> content.sim[v][best], entity |-> Entity(best)]>>
                 \o Ranking(rest, v)

\* a variant of ClientSearch: the limit is not passed on
ClientSearchNoLimit(store, collection_name, data, limit) ==
    [i \in 1..Len(data) |-> Ranking(store[collection_name], data[i])]

\* MilvusClient.search(collection_name, data, limit): one hit list per
\* query vector, each capped at limit
ClientSearch(store, collection_name, data, limit) ==
    [i \in 1..Len(data) |-> Take(Ranking(store[collection_name], data[i]), limit)]

----------------------------------------------------------------------------
(* MilvusLawSearcher.search_similar_laws, lines 106-134 *)

\* the citation path of a hit (the '\n'.join of the four labelled fields)
Path(entity) ==
    <<"Source: ", entity.source_doc, "Section: ", entity.section,
      "Chapter: ", entity.chapter, "Title: ", entity.article_title>>

Structured(result) ==
    [distance |-> result.distance,
     path |-> Path(result.entity),
     text |-> result.entity.article_text]

\* the position of key text in the dict seen_texts (0: not in it); the dict
\* is the sequence of its values in insertion order
KeyIndex(seen_texts, text) ==
    IF \E i \in 1..Len(seen_texts) : seen_texts[i].text = text
    THEN CHOOSE i \in 1..Len(seen_texts) : seen_texts[i].text = text
    ELSE 0

\* a variant of KeepHighest: no `text not in seen_texts` test, every hit is kept
KeepEveryHit(seen_texts, result) == Append(seen_texts, Structured(result))

\* a variant of KeepHighest: `>=` for `>`, the last of several equal hits wins
KeepHighestOrEqual(seen_texts, result) ==
    LET text == result.entity.article_text
        i == KeyIndex(seen_texts, text)
    IN  IF i = 0 THEN Append(seen_texts, Structured(result))
        ELSE IF result.distance >= seen_texts[i].distance
             THEN [seen_texts EXCEPT ![i] = Structured(result)]
             ELSE seen_texts

\* one pass of the inner loop body, lines 111-125; assigning to a key that
\* is in the dict keeps the key's position
KeepHighest(seen_texts, result) ==
    LET text == result.entity.article_text
        i == KeyIndex(seen_texts, text)
    IN  IF i = 0 THEN Append(seen_texts, Structured(result))
        ELSE IF result.distance > seen_texts[i].distance
             THEN [seen_texts EXCEPT ![i] = Structured(result)]
             ELSE seen_texts

\* the two loops, lines 109-125, over the hits in query order, then hit order
RECURSIVE SeenTexts(_, _)
SeenTexts(seen_texts, hits) ==
    IF hits = <<>> THEN seen_texts
    ELSE SeenTexts(KeepHighest(seen_texts, Head(hits)), Tail(hits))

\* sorted(..., key=distance, reverse=True): a stable sort, entries of equal
\* distance keep their order
\* a variant of InsertByDistance: an unstable sort, an entry goes before the
\* entries of equal distance
RECURSIVE InsertBeforeEqual(_, _)
InsertBeforeEqual(sorted, x) ==
    IF sorted = <<>> THEN <<x>>
    ELSE IF Head(sorted).distance > x.distance
         THEN <<Head(sorted)>> \o InsertBeforeEqual(Tail(sorted), x)
         ELSE <<x>> \o sorted

RECURSIVE InsertByDistance(_, _)
InsertByDistance(sorted, x) ==
    IF sorted = <<>> THEN <<x>>
    ELSE IF Head(sorted).distance >= x.distance
         THEN <<Head(sorted)>> \o InsertByDistance(Tail(sorted), x)
         ELSE <<x>> \o sorted

\* a variant of SortedByDistance: sorted(..., key=distance)[::-1], the
\* ascending sort reversed, which reverses the entries of equal distance
RECURSIVE SortedThenReversed(_)
SortedThenReversed(values) ==
    IF values = <<>> THEN <<>>
    ELSE InsertBeforeEqual(SortedThenReversed(SubSeq(values, 1, Len(values) - 1)),
                           values[Len(values)])

RECURSIVE SortedByDistance(_)
SortedByDistance(values) ==
    IF values = <<>> THEN <<>>
    ELSE InsertByDistance(SortedByDistance(SubSeq(values, 1, Len(values) - 1)),
                          values[Len(values)])

\* lines 106-134 on the client's answer
DedupAndSort(client_results) ==
    SortedByDistance(SeenTexts(<<>>, Flatten(client_results)))

----------------------------------------------------------------------------
(* LLMHelper and config *)

\* what the LLM can answer to the question prompt: up to MaxQuestions questions
QuestionAnswers ==
    {a \in SeqsUpTo(QueryTexts, MaxQuestions) :
        \A i, j \in 1..Len(a) : a[i] = a[j] => i = j}

\* what the LLM can answer to the extraction prompt: up to MaxParagraphs
\* paragraphs, the first of them q1 (q1 and q2 are interchangeable)
ExtractionAnswers ==
    {d \in SeqsUpTo(QueryTexts, MaxParagraphs) : d = <<>> \/ d[1] = "q1"}

\* what the LLM can answer to the response prompt: an empty or a non-empty text
ResponseAnswers == {EmptyString, <<"answer">>}

\* a variant of get_llm_questions: no `[:top_k]`
get_llm_questions_unsliced(answer, count) == answer

\* LLMHelper.get_llm_questions on the provider's answer (None: the call raised)
get_llm_questions(answer, count) ==
    IF answer = None THEN None ELSE Take(answer, count)

\* LLMHelper.get_doc_data on the provider's answer (None: the call raised)
get_doc_data(answer) == answer

\* LLMHelper.get_llm_response on the provider's answer (None: the call raised)
get_llm_response(answer) == answer

\* config.concat_query_and_doc
concat_query_and_doc(q, paragraphs) ==
    <<"Question: ", q, "\n\nDocument:\n">> \o paragraphs

\* ProLawRAGSearch._format_search_results
SearchHeader(l) == IF l = "kg" THEN "header_kg" ELSE "header_ru"

format_search_results(rs, l) ==
    <<SearchHeader(l)>> \o [i \in 1..Len(rs) |-> <<i, rs[i].path, rs[i].text>>]

\* a variant of MergeByText: the merged list is capped at top_k entries
RECURSIVE MergeByTextCapped(_, _)
MergeByTextCapped(rs, all) ==
    IF all = <<>> \/ Len(rs) >= top_k THEN rs
    ELSE MergeByTextCapped(
            IF \E i \in 1..Len(rs) : rs[i].text = Head(all).text
            THEN rs ELSE Append(rs, Head(all)),
            Tail(all))

\* lines 207-213 of get_response_from_doc_text (293-299 for images): keep
\* the first entry of every text
RECURSIVE MergeByText(_, _)
MergeByText(rs, all) ==
    IF all = <<>> THEN rs
    ELSE MergeByText(
            IF \E i \in 1..Len(rs) : rs[i].text = Head(all).text
            THEN rs ELSE Append(rs, Head(all)),
            Tail(all))

----------------------------------------------------------------------------
(* The request handlers of ProLawRAGSearch *)


Init ==
    /\ top_k \in 1..MaxTopK
    /\ n_llm_questions \in 1..MaxQuestions
    /\ lang \in Langs
    /\ milvus \in StoresFor(lang)
    /\ pc = "idle"
    /\ kind = "text"
    /\ type = "base"
    /\ doc_data = <<>>
    /\ para = 0
    /\ llm_questions = <<>>
    /\ query_vectors = <<>>
    /\ all_results = <<>>
    /\ results = <<>>
    /\ response = EmptyString
    /\ calls = <<>>
    /\ llm_answer = None
    /\ OutsideIdle

Call(op, arg, ret) == [op |-> op, arg |-> arg, ret |-> ret]

\* `return s`
Return(s) ==
    /\ response' = s
    /\ pc' = "done"

\* a variant of user_input: pro mode of a text request asks the synthesizer
\* its first expanded question
user_input_expanded ==
    IF kind = "text"
    THEN (IF type = "pro" THEN llm_questions[1] ELSE UserQuery)
    ELSE concat_query_and_doc(UserQuery, doc_data)

\* the handler's own question: the user's query, or for a document the
\* query combined with the paragraphs (user_input, lines 181 and 267)
user_input == IF kind = "text" THEN UserQuery
              ELSE concat_query_and_doc(UserQuery, doc_data)

\* MilvusLawSearcher.search_similar_laws(query_vectors, top_k, lang): ok
\* tells whether the client's search returned or raised (lines 102-104)
search_similar_laws(vectors, limit, l, ok) ==
    IF ok THEN DedupAndSort(ClientSearch(milvus, CollectionName(l), vectors, limit))
    ELSE <<>>

\* a variant of NextParagraph: the loop stops after the first paragraph
NextParagraphOnlyFirst(all, last) ==
    /\ all_results' = all
    /\ IF para < Min(last, 1)
       THEN /\ para' = para + 1
            /\ pc' = "expand"
            /\ UNCHANGED <<results, response>>
       ELSE /\ para' = para
            /\ results' = MergeByText(<<>>, all)
            /\ IF Len(results') = 0
               THEN Return(EmptyString)
               ELSE pc' = "synth" /\ response' = response

\* the end of one pass of the paragraph loop, lines 187-205 (273-291), with
\* the accumulated results all; after the last paragraph lines 207-213 merge
\* by text and lines 223-224 return "" on an empty list
NextParagraph(all, last) ==
    /\ all_results' = all
    /\ IF para < last
       THEN /\ para' = para + 1
            /\ pc' = "expand"
            /\ UNCHANGED <<results, response>>
       ELSE /\ para' = para
            /\ results' = MergeByText(<<>>, all)
            /\ IF Len(results') = 0
               THEN Return(EmptyString)
               ELSE pc' = "synth" /\ response' = response

\* a variant of ContinueLoop: `break` for `continue`, the loop ends at the
\* paragraph that has no questions
ContinueLoopBreaks(all, last) == NextParagraph(all, para)

\* `continue`, lines 194-195 (280-281): the paragraph adds nothing and the
\* loop goes on with the next paragraph
ContinueLoop(all, last) == NextParagraph(all, last)

\* a variant of AfterSearch: no `if not results: return ""`
AfterSearchUnchecked(out, k, t) ==
    /\ results' = out
    /\ UNCHANGED <<para, all_results>>
    /\ IF k = "text" /\ t = "search"
       THEN Return(format_search_results(out, lang))
       ELSE pc' = "synth" /\ response' = response

\* a variant of AfterSearch: pro mode keeps only the best entry of the list
AfterSearchProBestOnly(out, k, t) ==
    /\ results' = (IF t = "pro" THEN Take(out, 1) ELSE out)
    /\ UNCHANGED <<para, all_results>>
    /\ IF Len(out) = 0 THEN Return(EmptyString)
       ELSE IF k = "text" /\ t = "search"
       THEN Return(format_search_results(out, lang))
       ELSE pc' = "synth" /\ response' = response

\* lines 133-138 and 223-224: an empty result list returns "", search mode
\* of a text request returns the formatted listing, everything else goes on
\* to the synthesizer
AfterSearch(out, k, t) ==
    /\ results' = out
    /\ UNCHANGED <<para, all_results>>
    /\ IF Len(out) = 0 THEN Return(EmptyString)
       ELSE IF k = "text" /\ t = "search"
       THEN Return(format_search_results(out, lang))
       ELSE pc' = "synth" /\ response' = response

\* the calls AfterSearch adds to log: the formatter, in search mode of a
\* text request with results
FormatCall(log, out, k, t) ==
    IF Len(out) # 0 /\ k = "text" /\ t = "search"
    THEN Append(log, Call("format", <<out, lang>>, format_search_results(out, lang)))
    ELSE log

\* a variant of EmbedAndSearch: a store call that raised is tried once more
EmbedAndSearchRetrying(log, texts, k, t, last) ==
    \/ /\ calls' = Append(log, Call("embed", texts, None))
       /\ Return(EmptyString)
       /\ UNCHANGED <<query_vectors, para, all_results, results>>
    \/ \E ok \in BOOLEAN :
        LET vectors == [i \in 1..Len(texts) |-> Encode(texts[i])]
            raw == IF ok THEN ClientSearch(milvus, CollectionName(lang), vectors, top_k)
                   ELSE <<>>
            out == search_similar_laws(vectors, top_k, lang, ok)
            search == Call("search", <<CollectionName(lang), vectors, top_k>>,
                           [ok |-> ok, raw |-> raw, out |-> out])
        IN  /\ query_vectors' = vectors
            /\ calls' = FormatCall(
                  log \o <<Call("embed", texts, vectors), search>>
                      \o (IF ok THEN <<>> ELSE <<search>>),
                  out, k, t)
            /\ IF k # "text" /\ t = "pro"
               THEN NextParagraph(all_results \o out, last)
               ELSE AfterSearch(out, k, t)

\* encode_queries(texts) followed by search_similar_laws, both synchronous
\* (lines 121-131, 198-205, 216-221), for handler k in mode t after the
\* calls in log. The embedding model may raise, which the handler's except
\* clause turns into ""; Milvus may raise, which search_similar_laws turns
\* into [].
EmbedAndSearch(log, texts, k, t, last) ==
    \/ /\ calls' = Append(log, Call("embed", texts, None))
       /\ Return(EmptyString)
       /\ UNCHANGED <<query_vectors, para, all_results, results>>
    \/ \E ok \in BOOLEAN :
        LET vectors == [i \in 1..Len(texts) |-> Encode(texts[i])]
            raw == IF ok THEN ClientSearch(milvus, CollectionName(lang), vectors, top_k)
                   ELSE <<>>
            out == search_similar_laws(vectors, top_k, lang, ok)
        IN  /\ query_vectors' = vectors
            /\ calls' = FormatCall(
                  log \o <<Call("embed", texts, vectors),
                           Call("search", <<CollectionName(lang), vectors, top_k>>,
                                [ok |-> ok, raw |-> raw, out |-> out])>>,
                  out, k, t)
            /\ IF k # "text" /\ t = "pro"
               THEN NextParagraph(all_results \o out, last)
               ELSE AfterSearch(out, k, t)

\* the caller invokes get_response_text, get_response_from_doc_text or
\* get_response_from_image_text; the handler runs to its first await
\* (lines 113, 141, 176) or to its return. LLMHelper defines no
\* get_image_data: line 262 raises AttributeError before any call is made
\* and lines 320-322 return "".
Start(k, t) ==
    /\ pc = "idle"
    /\ kind' = k
    /\ type' = t
    /\ IF k = "image"
       THEN /\ Return(EmptyString)
            /\ UNCHANGED <<query_vectors, para, all_results, results, calls>>
       ELSE IF k = "doc"
       THEN /\ pc' = "extract"
            /\ UNCHANGED <<query_vectors, para, all_results, results, calls, response>>
       ELSE IF t = "pro"
       THEN /\ pc' = "expand"
            /\ UNCHANGED <<query_vectors, para, all_results, results, calls, response>>
       ELSE EmbedAndSearch(calls, <<UserQuery>>, k, t, 0)
    /\ UNCHANGED <<config_vars, doc_data, llm_questions>>

\* lines 176-221: get_doc_data answers; no paragraphs return "", pro mode
\* enters the paragraph loop, the other modes encode the paragraphs
Extract ==
    /\ pc = "extract"
    /\ \E answer \in ExtractionAnswers \cup {None} :
        LET log == Append(calls, Call("extract", <<>>, answer))
        IN  /\ doc_data' = get_doc_data(answer)
            /\ IF NoDocData(doc_data')
               THEN /\ Return(EmptyString)
                    /\ calls' = log
                    /\ UNCHANGED <<query_vectors, para, all_results, results>>
               ELSE IF type = "pro"
               THEN /\ NextParagraph(<<>>, Len(doc_data'))
                    /\ calls' = log
                    /\ query_vectors' = query_vectors
               ELSE EmbedAndSearch(log, doc_data', kind, type, 0)
    /\ UNCHANGED <<config_vars, kind, type, llm_questions>>

\* lines 113-131 and 189-205: get_llm_questions answers for the query
\* (text) or for the current paragraph (document); no questions return ""
\* (text) or skip the paragraph (document)
Expand ==
    /\ pc = "expand"
    /\ LET seed == IF kind = "text" THEN UserQuery ELSE doc_data[para]
       IN \E answer \in QuestionAnswers \cup {None} :
           LET log == Append(calls, Call("expand", <<seed, n_llm_questions, lang>>,
                                         get_llm_questions(answer, n_llm_questions)))
           IN  /\ llm_questions' = get_llm_questions(answer, n_llm_questions)
               /\ IF NoQuestions(llm_questions')
                  THEN /\ calls' = log
                       /\ query_vectors' = query_vectors
                       /\ IF kind = "text"
                          THEN /\ Return(EmptyString)
                               /\ UNCHANGED <<para, all_results, results>>
                          ELSE ContinueLoop(all_results, Len(doc_data))
                  ELSE EmbedAndSearch(log, llm_questions', kind, type, Len(doc_data))
    /\ UNCHANGED <<config_vars, kind, type, doc_data>>

\* a variant of Synthesize: when the synthesis fails the handler falls back
\* to the listing of the retrieved passages
SynthesizeFallsBack ==
    /\ pc = "synth"
    /\ \E answer \in ResponseAnswers \cup {None} :
        /\ calls' = Append(calls, Call("synth", <<user_input, results, lang>>,
                                       get_llm_response(answer)))
        /\ Return(IF get_llm_response(answer) = None
                  THEN format_search_results(results, lang)
                  ELSE OrEmpty(get_llm_response(answer)))
    /\ UNCHANGED <<config_vars, kind, type, doc_data, para, llm_questions,
                   query_vectors, all_results, results>>

\* lines 141-146 and 227-232: get_llm_response answers
Synthesize ==
    /\ pc = "synth"
    /\ \E answer \in ResponseAnswers \cup {None} :
        /\ calls' = Append(calls, Call("synth", <<user_input, results, lang>>,
                                       get_llm_response(answer)))
        /\ Return(OrEmpty(get_llm_response(answer)))
    /\ UNCHANGED <<config_vars, kind, type, doc_data, para, llm_questions,
                   query_vectors, all_results, results>>

Next ==
    \/ \E k \in Kinds, t \in Types : Start(k, t)
    \/ Extract
    \/ Expand
    \/ Synthesize

Spec == Init /\ [][Next]_vars

\* the handlers under the event loop: a coroutine that awaits an LLM call is
\* resumed once the call has answered or raised
SpecLive ==
    Spec /\ WF_vars(Extract) /\ WF_vars(Expand) /\ WF_vars(Synthesize)

----------------------------------------------------------------------------
(* Cancellation of the task that runs a handler *)

\* the handler's task is cancelled while it awaits an LLM call (lines 113,
\* 141, 176, 189, 227): asyncio raises CancelledError at the await.
\* CancelledError is a BaseException, the handlers' `except Exception`
\* (lines 148, 234, 320) does not catch it, and it leaves the handler: no
\* string is returned.
Cancel ==
    /\ pc \in {"extract", "expand", "synth"}
    /\ pc' = "raised"
    /\ calls' = Append(calls, Call("cancel", <<>>, None))
    /\ UNCHANGED <<config_vars, kind, type, doc_data, para, llm_questions,
                   query_vectors, all_results, results, response>>

NextOrCancel == Next \/ Cancel

SpecCancel == Init /\ [][NextOrCancel]_vars

----------------------------------------------------------------------------
(* LLMHelper.get_llm_questions on its own: every count against every answer *)

\* the answers of the provider: up to MaxQuestions + 2 questions, repeats
\* allowed
AnyQuestionAnswers == SeqsUpTo(QueryTexts, MaxQuestions + 2)

InitExpander ==
    /\ top_k = 1
    /\ n_llm_questions \in 1..(MaxQuestions + 1)
    /\ lang \in Langs
    /\ milvus = [c \in {COLLECTION_RU, COLLECTION_KG} |-> FullContent(c)]
    /\ pc = "expand"
    /\ kind = "text"
    /\ type = "pro"
    /\ doc_data = <<>>
    /\ para = 0
    /\ llm_questions = <<>>
    /\ query_vectors = <<>>
    /\ all_results = <<>>
    /\ results = <<>>
    /\ response = EmptyString
    /\ calls = <<>>
    /\ llm_answer = None
    /\ OutsideIdle

\* lines 113-125 of aitools/llm.py: one call of get_llm_questions
AskQuestions ==
    /\ pc = "expand"
    /\ \E answer \in AnyQuestionAnswers \cup {None} :
        /\ llm_answer' = answer
        /\ llm_questions' = get_llm_questions(answer, n_llm_questions)
        /\ calls' = Append(calls, Call("expand", <<UserQuery, n_llm_questions, lang>>,
                                       llm_questions'))
    /\ pc' = "asked"
    /\ UNCHANGED <<top_k, n_llm_questions, lang, milvus, kind, type, doc_data,
                   para, query_vectors, all_results, results, response,
                   outside_vars>>

SpecExpander == InitExpander /\ [][AskQuestions]_vars

----------------------------------------------------------------------------
(* What the claims speak about, read off the call log *)

CallsOf(op) == {i \in 1..Len(calls) : calls[i].op = op}

\* the raw hits of search call i, in query order, then hit order
RawHits(i) == Flatten(calls[i].ret.raw)

\* the list search call i returned
SearchOut(i) == calls[i].ret.out

\* the result lists handed to the synthesizer or to the search formatter
HandedLists ==
    {calls[i].arg[2] : i \in CallsOf("synth")} \cup
    {calls[i].arg[1] : i \in CallsOf("format")}

TextsOf(rs) == {rs[i].text : i \in 1..Len(rs)}

UniqueTexts(rs) == \A i, j \in 1..Len(rs) : rs[i].text = rs[j].text => i = j

HitTexts(hits) == {hits[i].entity.article_text : i \in 1..Len(hits)}

\* the request is a document or image request in pro mode
FanOutPro == kind \in {"doc", "image"} /\ type = "pro"

----------------------------------------------------------------------------
(* The claims *)

\* C1: every result list search_similar_laws returns, and every result list
\* handed to the synthesizer or to the search formatter (the list merged
\* across paragraphs included), holds no two entries with the same text; when
\* all candidate hits share one text the list has exactly one entry.
C1_UniqueTexts ==
    /\ \A i \in CallsOf("search") :
        /\ UniqueTexts(SearchOut(i))
        /\ Cardinality(HitTexts(RawHits(i))) = 1 => Len(SearchOut(i)) = 1
    /\ \A rs \in HandedLists :
        /\ UniqueTexts(rs)
        /\ Cardinality(UNION {HitTexts(RawHits(i)) : i \in CallsOf("search")}) = 1
              => Len(rs) = 1

\* C1's case: a pro-mode document request whose paragraphs returned the same
\* text more than once, and one search call with two hits of one text, has
\* handed its merged list to the synthesizer
C1_Witness ==
    /\ FanOutPro
    /\ CallsOf("synth") # {}
    /\ ~UniqueTexts(all_results)
    /\ \E i \in CallsOf("search") :
          Len(RawHits(i)) > Cardinality(HitTexts(RawHits(i)))

\* the first hit of the given text with the highest score among hits
BestHit(hits, text) ==
    CHOOSE h \in 1..Len(hits) :
        /\ hits[h].entity.article_text = text
        /\ \A g \in 1..Len(hits) :
              hits[g].entity.article_text = text =>
                 \/ hits[g].distance < hits[h].distance
                 \/ hits[g].distance = hits[h].distance /\ h <= g

\* C2: within one call of search_similar_laws, for every text among the raw
\* hits the returned entry of that text carries the maximum score of the hits
\* with that text, and the citation path of the first hit (query order, then
\* hit order) that has that score.
C2_MaxScoreFirstSeen ==
    \A i \in CallsOf("search") :
        \A text \in HitTexts(RawHits(i)) :
            \E e \in 1..Len(SearchOut(i)) :
                /\ SearchOut(i)[e].text = text
                /\ SearchOut(i)[e].distance = RawHits(i)[BestHit(RawHits(i), text)].distance
                /\ SearchOut(i)[e].path = Path(RawHits(i)[BestHit(RawHits(i), text)].entity)

\* C2's case: a search over two query vectors returned two hits of one text
\* with the same, highest score and different citation paths, and a third hit
\* of that text with a lower score
C2_Witness ==
    \E i \in CallsOf("search") :
        /\ Len(calls[i].arg[2]) = 2
        /\ \E g, h, l \in 1..Len(RawHits(i)) :
            /\ g < h
            /\ RawHits(i)[g].entity.article_text = RawHits(i)[h].entity.article_text
            /\ RawHits(i)[g].entity.article_text = RawHits(i)[l].entity.article_text
            /\ RawHits(i)[g].distance = RawHits(i)[h].distance
            /\ RawHits(i)[l].distance < RawHits(i)[g].distance
            /\ Path(RawHits(i)[g].entity) # Path(RawHits(i)[h].entity)

\* C3: in document and image pro mode, when the same text comes back for two
\* paragraphs with different scores, the merged list that reaches the
\* synthesizer holds exactly one entry of that text, with the maximum score.
C3_MergedKeepsMaximum ==
    FanOutPro =>
        \A c \in CallsOf("synth") :
            /\ UniqueTexts(calls[c].arg[2])
            /\ \A i \in CallsOf("search") :
                  \A e \in 1..Len(SearchOut(i)) :
                      \E m \in 1..Len(calls[c].arg[2]) :
                          /\ calls[c].arg[2][m].text = SearchOut(i)[e].text
                          /\ calls[c].arg[2][m].distance >= SearchOut(i)[e].distance

NonIncreasing(rs) == \A i, j \in 1..Len(rs) : i < j => rs[i].distance >= rs[j].distance

\* C4: in every mode and for every input kind, the result list handed to the
\* synthesizer or to the search formatter is sorted non-increasing by score,
\* the document/image pro-mode list merged from several paragraphs included.
C4_HandedListsSorted == \A rs \in HandedLists : NonIncreasing(rs)

\* the number of query vectors of the search calls among the first n calls
RECURSIVE VectorsSearched(_)
VectorsSearched(n) ==
    IF n = 0 THEN 0
    ELSE VectorsSearched(n - 1) +
         (IF calls[n].op = "search" THEN Len(calls[n].arg[2]) ELSE 0)

\* C5 as stated: the list search_similar_laws returns and the list handed to
\* the synthesizer or formatter have at most top_k entries, also over several
\* query vectors.
C5_AtMostTopK ==
    /\ \A i \in CallsOf("search") : Len(SearchOut(i)) <= top_k
    /\ \A rs \in HandedLists : Len(rs) <= top_k

\* C5 as amended: the list search_similar_laws returns has at most top_k
\* entries per query vector of the call, and the list handed to the
\* synthesizer or formatter at most top_k entries per query vector searched
\* for the request (so at most top_k for a single query vector).
C5_AtMostTopKPerVector ==
    /\ \A i \in CallsOf("search") :
          Len(SearchOut(i)) <= top_k * Len(calls[i].arg[2])
    /\ \A c \in CallsOf("synth") :
          Len(calls[c].arg[2]) <= top_k * VectorsSearched(c)
    /\ \A c \in CallsOf("format") :
          Len(calls[c].arg[1]) <= top_k * VectorsSearched(c)

\* C5's case: several query vectors gave more than top_k distinct texts, and
\* the list has been handed on
C5_Witness ==
    \E c \in CallsOf("synth") :
        /\ VectorsSearched(c) > 1
        /\ Len(calls[c].arg[2]) > top_k
        /\ Len(calls[c].arg[2]) = top_k * VectorsSearched(c)

\* C6: in pro mode and in document/image paragraph fan-out, aggregation only
\* drops duplicates: every distinct text of any per-query hit list of the
\* request is exactly once in the final result list.
C6_OnlyDuplicatesDropped ==
    (type = "pro" \/ kind \in {"doc", "image"}) =>
        \A rs \in HandedLists :
            /\ TextsOf(rs) = UNION {HitTexts(RawHits(i)) : i \in CallsOf("search")}
            /\ UniqueTexts(rs)

\* C6's case: a pro-mode document request over two paragraphs whose hits
\* held duplicates and more than top_k distinct texts has handed its list on
C6_Witness ==
    /\ FanOutPro
    /\ Cardinality(CallsOf("search")) = 2
    /\ ~UniqueTexts(all_results)
    /\ \E c \in CallsOf("synth") : Len(calls[c].arg[2]) > top_k

\* C7: when extraction yields no paragraphs (an empty list or a failure),
\* get_response_from_doc_text returns the empty string, and neither the query
\* expander nor the embedding client, the retriever or the synthesizer is
\* called.
C7_NoParagraphsNoCalls ==
    (kind = "doc" /\ \E i \in CallsOf("extract") : Falsy(calls[i].ret)) =>
        /\ pc = "done"
        /\ response = EmptyString
        /\ \A i \in 1..Len(calls) : calls[i].op = "extract"

\* C7's case: the extractor answered with an empty list and the handler
\* returned
C7_Witness ==
    /\ kind = "doc"
    /\ pc = "done"
    /\ \E i \in CallsOf("extract") : calls[i].ret = <<>>

\* search call i got no hit for any query vector, or the store call failed
NoHits(i) == ~calls[i].ret.ok \/ Len(RawHits(i)) = 0

\* C8: when the store returns zero hits for all query vectors of a request
\* (or the store call fails), get_response_text returns the empty string in
\* every mode and the synthesizer is not invoked.
C8_NoHitsNoSynthesis ==
    (kind = "text" /\ \E i \in CallsOf("search") : NoHits(i)) =>
        /\ pc = "done"
        /\ response = EmptyString
        /\ CallsOf("synth") = {}
        /\ CallsOf("format") = {}

\* C8's case: a pro-mode text request searched two vectors in a store that
\* answered, with no hit
C8_Witness ==
    /\ kind = "text"
    /\ type = "pro"
    /\ pc = "done"
    /\ \E i \in CallsOf("search") :
          calls[i].ret.ok /\ Len(calls[i].arg[2]) = 2 /\ Len(RawHits(i)) = 0

\* C9: for every count c and every list of n questions the LLM returns,
\* get_llm_questions returns the first min(c, n) questions in the returned
\* order, whether n is more or fewer than c.
C9_FirstQuestions ==
    (pc = "asked" /\ llm_answer # None) =>
        /\ Len(llm_questions) = Min(n_llm_questions, Len(llm_answer))
        /\ \A i \in 1..Len(llm_questions) : llm_questions[i] = llm_answer[i]

\* C9's case: the LLM was asked for 3 questions and returned more
C9_Witness ==
    /\ pc = "asked"
    /\ n_llm_questions = 3
    /\ llm_answer # None
    /\ Len(llm_answer) > 3

\* C10: in pro mode of get_response_text, when the query expander produces
\* no questions (a provider error or zero questions), the request returns the
\* empty string and neither the embedding client nor the retriever or the
\* synthesizer is called.
C10_NoQuestionsNoCalls ==
    (kind = "text" /\ type = "pro" /\ \E i \in CallsOf("expand") : Falsy(calls[i].ret)) =>
        /\ pc = "done"
        /\ response = EmptyString
        /\ \A i \in 1..Len(calls) : calls[i].op = "expand"

\* C10's case: the provider failed and the handler returned
C10_Witness ==
    /\ kind = "text"
    /\ type = "pro"
    /\ pc = "done"
    /\ \E i \in CallsOf("expand") : calls[i].ret = None

----------------------------------------------------------------------------
(* The paragraph fan-out of get_response_from_doc_text, read off the call log *)

\* the paragraph that expand call i is for: the number of expand calls up to i
ParagraphOf(i) == Cardinality({j \in CallsOf("expand") : j <= i})

\* expand call i, for a paragraph that is not the last, is followed by the
\* expansion of the next paragraph, after the skip calls of its own paragraph
FollowedByNextParagraph(i, skip) ==
    ParagraphOf(i) < Len(doc_data) =>
        IF i + skip = Len(calls)
        THEN pc = "expand" /\ para = ParagraphOf(i) + 1
        ELSE /\ calls[i + skip + 1].op = "expand"
             /\ calls[i + skip + 1].arg[1] = doc_data[ParagraphOf(i) + 1]

\* expand call i returned questions, and they were embedded and searched
EmbeddedAndSearched(i) ==
    /\ i + 1 <= Len(calls)
    /\ calls[i + 1].op = "embed"
    /\ calls[i + 1].arg = calls[i].ret
    /\ calls[i + 1].ret # None =>
          /\ i + 2 <= Len(calls)
          /\ calls[i + 2].op = "search"
          /\ calls[i + 2].arg[2] = calls[i + 1].ret

\* the embedding model raised in some call
EmbedFailed == \E i \in CallsOf("embed") : calls[i].ret = None

\* the texts of the lists the search calls of the request returned
TextsFound == UNION {TextsOf(SearchOut(i)) : i \in CallsOf("search")}

\* C11: in document/image pro mode, a paragraph for which the expander yields
\* no questions (None or an empty list) is followed by no embedding and no
\* search of its own, and the request goes on: the next paragraph is expanded,
\* every later paragraph that gets questions is embedded and searched, and
\* once the loop is over without an embedding failure the texts found for the
\* other paragraphs are exactly the texts handed to the synthesizer.
C11_EmptyParagraphSkipped ==
    FanOutPro =>
        \A i \in CallsOf("expand") :
            Falsy(calls[i].ret) =>
                /\ calls[i].arg[1] = doc_data[ParagraphOf(i)]
                /\ i < Len(calls) => calls[i + 1].op \in {"expand", "synth"}
                /\ FollowedByNextParagraph(i, 0)
                /\ \A j \in CallsOf("expand") :
                      (j > i /\ ~Falsy(calls[j].ret)) => EmbeddedAndSearched(j)
                /\ (pc = "done" /\ ~EmbedFailed /\ TextsFound # {}) =>
                      /\ CallsOf("synth") # {}
                      /\ \A c \in CallsOf("synth") : TextsOf(calls[c].arg[2]) = TextsFound

\* C11's case: the first of two paragraphs got no questions, the second one
\* was searched with hits, and the synthesizer was called
C11_Witness ==
    /\ FanOutPro
    /\ Len(doc_data) = 2
    /\ pc = "done"
    /\ \E i \in CallsOf("expand") : ParagraphOf(i) = 1 /\ Falsy(calls[i].ret)
    /\ TextsFound # {}
    /\ CallsOf("synth") # {}

\* a failed expansion of a paragraph is followed by the next paragraph
ExpansionFailureIsolated ==
    \A i \in CallsOf("expand") : calls[i].ret = None => FollowedByNextParagraph(i, 0)

\* a failed embedding of a paragraph's questions is followed by the next
\* paragraph (the embedding comes right after its paragraph's expansion)
EmbeddingFailureIsolated ==
    \A i \in CallsOf("embed") : calls[i].ret = None => FollowedByNextParagraph(i - 1, 1)

\* a failed search for a paragraph is followed by the next paragraph
RetrievalFailureIsolated ==
    \A i \in CallsOf("search") : ~calls[i].ret.ok => FollowedByNextParagraph(i - 2, 2)

\* the hits the paragraphs found are synthesized once the request is over
FoundIsSynthesized ==
    (pc = "done" /\ TextsFound # {}) =>
        /\ CallsOf("synth") # {}
        /\ \A c \in CallsOf("synth") : TextsOf(calls[c].arg[2]) = TextsFound

\* C12: in document/image pro mode, a failure of the expansion, the embedding
\* or the retrieval of one paragraph makes only that paragraph contribute
\* nothing: the next paragraph's sub-pipeline still runs, and the hits of the
\* other paragraphs are aggregated and synthesized.
C12_FailedParagraphIsolated ==
    FanOutPro =>
        /\ ExpansionFailureIsolated
        /\ EmbeddingFailureIsolated
        /\ RetrievalFailureIsolated
        /\ FoundIsSynthesized

\* what does hold in document pro mode: expansion and retrieval failures are isolated,
\* and without an embedding failure the hits found are synthesized
IsolatedExceptEmbedding ==
    FanOutPro =>
        /\ ExpansionFailureIsolated
        /\ RetrievalFailureIsolated
        /\ ~EmbedFailed => FoundIsSynthesized

----------------------------------------------------------------------------
(* Failures and what the caller gets *)

\* a stage the request cannot do without has failed: the extraction, an
\* embedding or the synthesis raised, or, outside the paragraph loop, the
\* expansion or the store call raised
RequiredStageFailed ==
    \/ \E i \in CallsOf("extract") \cup CallsOf("embed") \cup CallsOf("synth") :
          calls[i].ret = None
    \/ /\ ~FanOutPro
       /\ \/ \E i \in CallsOf("expand") : calls[i].ret = None
          \/ \E i \in CallsOf("search") : ~calls[i].ret.ok

\* C13: for every combination of success and failure of extraction,
\* expansion, embedding, retrieval and synthesis, a started handler (text,
\* document or image) eventually returns, what it returns is a string and
\* never None, and it is the empty string when a required stage failed.
C13_AlwaysReturnsString ==
    /\ [](pc = "done" =>
            /\ response # None
            /\ RequiredStageFailed => response = EmptyString)
    /\ (pc # "idle") ~> (pc = "done")

\* C13's case: a document request whose extraction, expansion, embedding and
\* retrieval succeeded and whose synthesis failed has returned
C13_Witness ==
    /\ kind = "doc"
    /\ pc = "done"
    /\ CallsOf("expand") # {}
    /\ \E i \in CallsOf("synth") : calls[i].ret = None

\* C14: when the synthesis LLM call fails, the caller of get_response_text or
\* get_response_from_doc_text receives exactly the empty string: no partial
\* answer and not the retrieved passages.
C14_SynthesisFailureGivesEmpty ==
    (\E i \in CallsOf("synth") : calls[i].ret = None) =>
        /\ pc = "done"
        /\ response = EmptyString

\* C14's case: a pro-mode text request retrieved passages, its synthesis
\* failed, and the handler returned
C14_Witness ==
    /\ kind = "text"
    /\ type = "pro"
    /\ pc = "done"
    /\ Len(results) > 0
    /\ \E i \in CallsOf("synth") : calls[i].ret = None /\ calls[i].arg[2] = results

----------------------------------------------------------------------------
(* Search mode *)

\* s is the citation listing of rs in language l: the header of the
\* language, then one entry per result, numbered from 1 in the list's order
IsListing(s, rs, l) ==
    /\ Len(s) = Len(rs) + 1
    /\ s[1] = (IF l = "kg" THEN "header_kg" ELSE "header_ru")
    /\ \A i \in 1..Len(rs) : s[i + 1] = <<i, rs[i].path, rs[i].text>>

\* the synthesizer is not called, and a request that ended with a non-empty
\* result list returned its listing
ListingReturned ==
    /\ pc # "synth"
    /\ CallsOf("synth") = {}
    /\ (pc = "done" /\ Len(results) > 0) => IsListing(response, results, lang)

\* C15: in search mode, for plain-text, document and image inputs alike, the
\* synthesizer is never invoked and a non-empty result list is returned as
\* the formatted citation listing (the language's header followed by the
\* entries numbered 1..n in result-list order).
C15_SearchModeReturnsListing == type = "search" => ListingReturned

\* what does hold: search mode of get_response_text
TextSearchModeReturnsListing == (kind = "text" /\ type = "search") => ListingReturned

----------------------------------------------------------------------------
(* The synthesizer's arguments *)

\* C16: per request the synthesizer is called at most once; its query
\* argument is the user's original query in text base and pro mode (never an
\* expanded question), and in document/image mode the text that combines the
\* user's question with the extracted paragraphs, in their order.
C16_SynthesizerCalledOnceWithQuery ==
    /\ Cardinality(CallsOf("synth")) <= 1
    /\ \A c \in CallsOf("synth") :
          IF kind = "text"
          THEN calls[c].arg[1] = "q1"
          ELSE /\ Len(calls[c].arg[1]) = 3 + Len(doc_data)
               /\ SubSeq(calls[c].arg[1], 1, 3) = <<"Question: ", "q1", "\n\nDocument:\n">>
               /\ \A i \in 1..Len(doc_data) : calls[c].arg[1][3 + i] = doc_data[i]

\* C16's case: a pro-mode text request whose first expanded question is not
\* the user's query has called the synthesizer
C16_Witness ==
    /\ kind = "text"
    /\ type = "pro"
    /\ Len(llm_questions) = 2
    /\ llm_questions[1] # UserQuery
    /\ CallsOf("synth") # {}

\* a pro-mode document request over two paragraphs has called the synthesizer
DocumentSynthesisReached ==
    /\ FanOutPro
    /\ Len(doc_data) = 2
    /\ Cardinality(CallsOf("expand")) = 2
    /\ CallsOf("synth") # {}

----------------------------------------------------------------------------
(* The expander in the paragraph loop *)

\* no stage of the request has failed so far
NoStageFailure ==
    /\ \A i \in CallsOf("extract") \cup CallsOf("expand") \cup CallsOf("embed")
                \cup CallsOf("synth") : calls[i].ret # None
    /\ \A i \in CallsOf("search") : calls[i].ret.ok

\* C17: in document/image pro mode with M extracted paragraphs and no stage
\* failure, the query expander is called exactly M times by the end of the
\* paragraph loop, once per paragraph in paragraph order, each time with that
\* paragraph as seed and the configured question count.
C17_ExpanderOncePerParagraph ==
    (FanOutPro /\ CallsOf("extract") # {} /\ NoStageFailure) =>
        /\ \A i \in CallsOf("expand") :
              /\ ParagraphOf(i) <= Len(doc_data)
              /\ calls[i].arg = <<doc_data[ParagraphOf(i)], n_llm_questions, lang>>
        /\ pc \in {"synth", "done"} => Cardinality(CallsOf("expand")) = Len(doc_data)

\* C17's case: a pro-mode document request over two different paragraphs has
\* ended with no stage failure
C17_Witness ==
    /\ FanOutPro
    /\ NoStageFailure
    /\ pc = "done"
    /\ Len(doc_data) = 2
    /\ doc_data[1] # doc_data[2]
    /\ CallsOf("synth") # {}

----------------------------------------------------------------------------
(* Languages and collections *)

\* the article texts of the rows of a collection
TextsIn(coll) == {Entity(r).article_text : r \in RowIds(coll)}

\* the collection the claim assigns to the request's language
ClaimedCollection == IF lang = "kg" THEN "law_collection_kg" ELSE "law_collection"

\* C18: the collection searched is a function of the language code only:
\* every search_similar_laws call queries exactly one collection, the Kyrgyz
\* collection for 'kg' and the Russian collection for 'ru', and every result
\* list (returned by a search call or handed on) holds passages of that one
\* collection only.
C18_CollectionByLanguage ==
    /\ \A i \in CallsOf("search") :
          /\ calls[i].arg[1] = ClaimedCollection
          /\ HitTexts(RawHits(i)) \subseteq TextsIn(ClaimedCollection)
          /\ TextsOf(SearchOut(i)) \subseteq TextsIn(ClaimedCollection)
    /\ \A rs \in HandedLists : TextsOf(rs) \subseteq TextsIn(ClaimedCollection)
    /\ TextsOf(results) \subseteq TextsIn(ClaimedCollection)

\* C18's case: a Kyrgyz request was searched with a hit while the Russian
\* collection held passages too, and its list was handed on
C18_Witness ==
    /\ lang = "kg"
    /\ milvus[COLLECTION_RU].rows # {}
    /\ \E i \in CallsOf("search") : Len(SearchOut(i)) > 0
    /\ HandedLists # {}

----------------------------------------------------------------------------
(* Pro mode against base mode *)

\* the result list of base mode for the user's query, the store's content
\* and the configured top_k
BaseResults == search_similar_laws(<<Encode(UserQuery)>>, top_k, lang, TRUE)

\* the request searched a single vector, the vector of the user's query
SearchedQueryVectorOnly ==
    \A i \in CallsOf("search") : calls[i].arg[2] = <<Encode(UserQuery)>>

\* C19: when the expander returns a single question whose vector equals the
\* vector of the original query, the result list that pro mode hands to the
\* synthesizer equals the result list of base mode (which base mode hands to
\* the synthesizer), for every store content and every top_k.
C19_ProEqualsBaseOnSingleQuestion ==
    (kind = "text" /\ type \in {"base", "pro"} /\ SearchedQueryVectorOnly) =>
        \A c \in CallsOf("synth") : calls[c].arg[2] = BaseResults

\* C19's case: a pro-mode text request whose expander returned the one
\* question with the query's vector has handed two passages to the synthesizer
C19_Witness ==
    /\ kind = "text"
    /\ type = "pro"
    /\ \E i \in CallsOf("expand") : Len(calls[i].ret) = 1
    /\ SearchedQueryVectorOnly
    /\ \E c \in CallsOf("synth") : Len(calls[c].arg[2]) = 2

\* the same for base mode
BaseModeSynthesisReached ==
    /\ kind = "text"
    /\ type = "base"
    /\ \E c \in CallsOf("synth") : Len(calls[c].arg[2]) = 2

----------------------------------------------------------------------------
(* Aggregation applied to its own output *)

\* a returned entry as a candidate hit again: the entity's fields are read
\* back from the citation path and the text
AsHit(e) ==
    [distance |-> e.distance,
     entity |-> [source_doc |-> e.path[2], section |-> e.path[4],
                 chapter |-> e.path[6], article_title |-> e.path[8],
                 article_text |-> e.text]]

AsHits(rs) == [j \in 1..Len(rs) |-> AsHit(rs[j])]

\* C20: aggregation is idempotent: the list search_similar_laws returned,
\* fed back in as the candidate list of its dedup-and-sort step, yields the
\* same list, and so does the merged list of the paragraph loop fed back into
\* the merge; a second run over the same candidates yields the same list as
\* the first.
C20_AggregationIdempotent ==
    /\ \A i \in CallsOf("search") :
          calls[i].ret.ok =>
              /\ DedupAndSort(<<AsHits(SearchOut(i))>>) = SearchOut(i)
              /\ DedupAndSort(calls[i].ret.raw) = SearchOut(i)
              /\ \A j \in CallsOf("search") :
                    (calls[j].ret.ok /\ RawHits(j) = RawHits(i)) => SearchOut(j) = SearchOut(i)
    /\ FanOutPro =>
          \A c \in CallsOf("synth") :
              /\ calls[c].arg[2] = MergeByText(<<>>, all_results)
              /\ MergeByText(<<>>, calls[c].arg[2]) = calls[c].arg[2]

\* C20's case: a search call dropped a duplicate and returned two entries of
\* equal score, and the paragraph merge dropped a duplicate before the
\* synthesizer was called
C20_Witness ==
    /\ FanOutPro
    /\ CallsOf("synth") # {}
    /\ Len(results) < Len(all_results)
    /\ \E i \in CallsOf("search") :
          /\ Len(RawHits(i)) > Len(SearchOut(i))
          /\ Len(SearchOut(i)) = 2
          /\ SearchOut(i)[1].distance = SearchOut(i)[2].distance

----------------------------------------------------------------------------
(* The order of the external calls *)

\* the external calls of the request, in order (the formatter is no
\* external call)
RECURSIVE ExternalOps(_)
ExternalOps(n) ==
    IF n = 0 THEN <<>>
    ELSE IF calls[n].op = "format" THEN ExternalOps(n - 1)
         ELSE Append(ExternalOps(n - 1), calls[n].op)

IsPrefix(s, t) == Len(s) <= Len(t) /\ s = SubSeq(t, 1, Len(s))

\* in the paragraph loop: after the extraction every call follows the call
\* the pipeline puts before it, every paragraph is expanded at most once, and
\* the synthesizer comes last, after the last paragraph
ParagraphOrder(ops) ==
    /\ Len(ops) > 0 => ops[1] = "extract"
    /\ \A i \in 2..Len(ops) :
          /\ ops[i] # "extract"
          /\ ops[i] = "expand" => ops[i - 1] \in {"extract", "expand", "search"}
          /\ ops[i] = "embed" => ops[i - 1] = "expand"
          /\ ops[i] = "search" => ops[i - 1] = "embed"
          /\ ops[i] = "synth" =>
                /\ ops[i - 1] \in {"expand", "search"}
                /\ i = Len(ops)
                /\ Cardinality({j \in 1..Len(ops) : ops[j] = "expand"}) = Len(doc_data)
    /\ Cardinality({j \in 1..Len(ops) : ops[j] = "expand"}) <= Len(doc_data)

\* C21: per request the external calls happen in pipeline order and without
\* retries: the calls of a text request are a prefix of expand (pro mode
\* only), embed, retrieve, synthesize; in a document pro request each
\* paragraph's expand, embed and retrieve occur in that order and at most
\* once, and synthesize occurs only after the last paragraph.
C21_PipelineOrder ==
    LET ops == ExternalOps(Len(calls))
    IN  /\ (kind = "text" /\ type = "pro") =>
              IsPrefix(ops, <<"expand", "embed", "search", "synth">>)
        /\ (kind = "text" /\ type # "pro") =>
              IsPrefix(ops, <<"embed", "search", "synth">>)
        /\ (kind # "text" /\ type # "pro") =>
              IsPrefix(ops, <<"extract", "embed", "search", "synth">>)
        /\ FanOutPro => ParagraphOrder(ops)

\* C21's case: a document pro request over two paragraphs, the store call
\* of the first of which failed, has made all its seven calls
C21_Witness ==
    /\ FanOutPro
    /\ Len(doc_data) = 2
    /\ ExternalOps(Len(calls)) =
          <<"extract", "expand", "embed", "search", "expand", "embed", "search", "synth">>
    /\ ~calls[4].ret.ok

\* a pro-mode text request has made all its four calls
TextProTraceComplete ==
    /\ kind = "text"
    /\ ExternalOps(Len(calls)) = <<"expand", "embed", "search", "synth">>

----------------------------------------------------------------------------
(* Cancellation *)

\* the request was cancelled in the paragraph loop, before the last
\* paragraph's expansion had answered
CancelledInLoop ==
    /\ CallsOf("cancel") # {}
    /\ CallsOf("extract") # {}
    /\ Cardinality(CallsOf("expand")) < Len(doc_data)

\* C22: when a document pro-mode request is cancelled while paragraph
\* sub-pipelines are still pending, the handler returns a result to its
\* caller: a string built from the partial aggregation gathered so far, or
\* the empty string if no sub-pipeline had completed.
C22_CancelledReturnsResult ==
    (FanOutPro /\ CancelledInLoop) =>
        /\ pc = "done"
        /\ all_results = <<>> => response = EmptyString

----------------------------------------------------------------------------
(* The image handler against the document handler *)

\* the request returned without any call to a collaborator
ReturnedWithoutCalls == pc = "done" /\ calls = <<>>

\* C23: the image variant runs the same pipeline as the document variant:
\* for the same extracted paragraphs, mode, language and collaborator
\* responses get_response_from_image_text returns the string
\* get_response_from_doc_text returns, a non-empty answer when extraction,
\* retrieval and synthesis succeed. A document request never returns before
\* its extractor was asked, whatever the collaborators answer, so neither
\* does an image request.
C23_ImageRunsDocumentPipeline ==
    kind \in {"doc", "image"} => ~ReturnedWithoutCalls

\* what does hold: the document handler alone
DocumentRunsExtractorFirst ==
    (kind = "doc" /\ pc = "done") => (Len(calls) > 0 /\ calls[1].op = "extract")

\* a document request has returned a non-empty answer
DocumentAnswered == kind = "doc" /\ pc = "done" /\ response = <<"answer">>

\* what the image handler does: it returns "" and calls nothing
ImageReturnsEmpty ==
    kind = "image" => (pc = "done" /\ response = EmptyString /\ calls = <<>>)

----------------------------------------------------------------------------
(* databases/db.py: UserRepository over the users table *)

\* balances range over 0..MaxBalance as long as no call allows a negative one
MaxBalance == 3
\* update_balance is called with amounts in -MaxAmount..MaxAmount
MaxAmount == 2
\* a behaviour makes at most MaxDbCalls calls of update_balance
MaxDbCalls == 3

TelegramIds == {1, 2}

\* a row of the users table as add_user inserts it (lines 131-138)
UserRow(telegram_id, balance, l) ==
    [telegram_id |-> telegram_id, balance |-> balance, lang |-> l,
     response_type |-> "base"]

\* the tables a behaviour starts with: empty, user 1 alone, or user 2 and
\* user 1, with non-negative balances
InitialUsers ==
    {<<>>}
    \cup {<<UserRow(1, b, "ru")>> : b \in 0..MaxBalance}
    \cup {<<UserRow(2, 1, "ru"), UserRow(1, b, "ru")>> : b \in 0..MaxBalance}

\* the position of the row of telegram_id in table (0: no such row), as
\* `WHERE telegram_id = %s` finds it
RowOf(table, telegram_id) ==
    IF \E i \in 1..Len(table) : table[i].telegram_id = telegram_id
    THEN CHOOSE i \in 1..Len(table) : table[i].telegram_id = telegram_id
    ELSE 0

\* the stored balance of telegram_id (the user exists)
BalanceOf(table, telegram_id) == table[RowOf(table, telegram_id)].balance

\* how the database behaves during one repository call: it works, a
\* statement raises mysql.connector.Error, or the connection is down
DbStates == {"ok", "error", "disconnected"}

\* a variant of update_balance: the balance check of lines 232-258 is skipped
update_balance_unchecked(table, telegram_id, amount, allow_negative, db, counted) ==
    LET i == RowOf(table, telegram_id)
        failed == [users |-> table, result |-> FALSE]
    IN  IF db # "ok" THEN failed
        ELSE IF i = 0 THEN failed
        ELSE [users |-> [table EXCEPT ![i].balance = @ + amount], result |-> TRUE]

\* UserRepository.update_balance, lines 223-288: the table after the call and
\* the returned value. A disconnected database returns False at once (lines
\* 223-225), an Error rolls the transaction back (lines 284-288). counted
\* tells whether the server counts a row whose balance the UPDATE left as
\* it was (amount 0) among the rows affected.
update_balance(table, telegram_id, amount, allow_negative, db, counted) ==
    LET i == RowOf(table, telegram_id)
        failed == [users |-> table, result |-> FALSE]
        rows_affected == IF i = 0 \/ (amount = 0 /\ ~counted) THEN 0 ELSE 1
    IN  IF db # "ok" THEN failed
        ELSE IF ~allow_negative /\ i = 0 THEN failed
        ELSE IF ~allow_negative /\ table[i].balance + amount < 0 THEN failed
        ELSE IF rows_affected > 0
        THEN [users |-> [table EXCEPT ![i].balance = @ + amount], result |-> TRUE]
        ELSE failed

\* the request's state while only the repository is looked at
RequestIdle ==
    /\ top_k = 1
    /\ n_llm_questions = 1
    /\ lang = "ru"
    /\ milvus = [c \in {COLLECTION_RU, COLLECTION_KG} |-> FullContent(c)]
    /\ pc = "idle"
    /\ kind = "text"
    /\ type = "base"
    /\ doc_data = <<>>
    /\ para = 0
    /\ llm_questions = <<>>
    /\ query_vectors = <<>>
    /\ all_results = <<>>
    /\ results = <<>>
    /\ response = EmptyString
    /\ calls = <<>>
    /\ llm_answer = None

InitBalance ==
    /\ RequestIdle
    /\ SettingsIdle
    /\ QueryIdle
    /\ OfflineIdle
    /\ users \in InitialUsers
    /\ db_log = <<>>

\* one call of update_balance, recorded with the table it found
CallUpdateBalance ==
    /\ Len(db_log) < MaxDbCalls
    /\ \E telegram_id \in TelegramIds, amount \in (-MaxAmount)..MaxAmount,
          allow_negative \in BOOLEAN, db \in DbStates, counted \in BOOLEAN :
        LET out == update_balance(users, telegram_id, amount, allow_negative, db, counted)
        IN  /\ \A i \in 1..Len(out.users) :
                  out.users[i].balance \in (-MaxBalance)..MaxBalance
            /\ users' = out.users
            /\ db_log' = Append(db_log,
                  [telegram_id |-> telegram_id, amount |-> amount,
                   allow_negative |-> allow_negative, before |-> users,
                   after |-> out.users, result |-> out.result])
    /\ UNCHANGED <<request_vars, settings_vars, query_vars, offline_vars>>

SpecBalance == InitBalance /\ [][CallUpdateBalance]_vars

\* every call so far was made with allow_negative=False
NeverAllowedNegative == \A i \in 1..Len(db_log) : ~db_log[i].allow_negative

\* call i asked for more than the user had, or for a user that is not there
Overdraws(i) ==
    \/ RowOf(db_log[i].before, db_log[i].telegram_id) = 0
    \/ BalanceOf(db_log[i].before, db_log[i].telegram_id) + db_log[i].amount < 0

\* C24: after any sequence of update_balance calls with allow_negative=False
\* on users whose balances start non-negative, no stored balance is negative;
\* a call whose amount would make the balance negative, or whose user does
\* not exist, returns False and leaves the table as it was.
C24_BalanceNeverNegative ==
    NeverAllowedNegative =>
        /\ \A i \in 1..Len(users) : users[i].balance >= 0
        /\ \A i \in 1..Len(db_log) :
              /\ Overdraws(i) => (~db_log[i].result /\ db_log[i].after = db_log[i].before)
              /\ ~db_log[i].result => db_log[i].after = db_log[i].before

\* C24's case: after a successful debit a second debit asked for more than
\* was left, and a call for a user that does not exist was made
C24_Witness ==
    /\ NeverAllowedNegative
    /\ Len(db_log) = 3
    /\ db_log[1].result /\ db_log[1].amount < 0
    /\ db_log[2].telegram_id = db_log[1].telegram_id
    /\ RowOf(db_log[2].before, db_log[2].telegram_id) # 0
    /\ Overdraws(2)
    /\ RowOf(db_log[3].before, db_log[3].telegram_id) = 0

----------------------------------------------------------------------------
(* bot/handlers.py: /start and the two selections *)

\* add_user's default initial_balance (line 107 of databases/db.py)
INITIAL_BALANCE == 10
\* a behaviour runs at most MaxEvents settings handlers
MaxEvents == 4

\* the number of rows of telegram_id in table
RowsOf(table, telegram_id) ==
    Cardinality({i \in 1..Len(table) : table[i].telegram_id = telegram_id})

\* UserRepository.get_user_with_response_type, which handlers.py calls
\* (line 120): the user's row, or nothing (None, here the empty sequence)
\* when there is no row or the read failed
get_user_with_response_type(table, telegram_id, db) ==
    IF db = "ok" /\ RowOf(table, telegram_id) # 0
    THEN <<table[RowOf(table, telegram_id)]>>
    ELSE <<>>

\* UserRepository.update_response_type, which handlers.py calls (line 228):
\* the user's response_type is set, nothing else
update_response_type(table, telegram_id, response_type, db) ==
    IF db = "ok" /\ RowOf(table, telegram_id) # 0
    THEN [table EXCEPT ![RowOf(table, telegram_id)].response_type = response_type]
    ELSE table

\* UserRepository.add_user, lines 125-147: the INSERT fails on the UNIQUE
\* constraint when telegram_id has a row (lines 121-123)
add_user(table, telegram_id, initial_balance, l, db) ==
    IF db = "ok" /\ RowOf(table, telegram_id) = 0
    THEN Append(table, UserRow(telegram_id, initial_balance, l))
    ELSE table

\* a variant of update_lang: the row is written anew, with the initial balance
update_lang_resetting(table, telegram_id, l, db) ==
    IF db = "ok" /\ RowOf(table, telegram_id) # 0
    THEN [table EXCEPT ![RowOf(table, telegram_id)] =
             UserRow(telegram_id, INITIAL_BALANCE, l)]
    ELSE table

\* UserRepository.update_lang, lines 308-345 (the language codes of the
\* keyboard have two lower-case characters)
update_lang(table, telegram_id, l, db) ==
    IF db = "ok" /\ RowOf(table, telegram_id) # 0
    THEN [table EXCEPT ![RowOf(table, telegram_id)].lang = l]
    ELSE table

\* one run of a settings handler, recorded with the table it found
Event(handler, telegram_id, choice) ==
    [handler |-> handler, telegram_id |-> telegram_id, choice |-> choice,
     before |-> users]

\* cmd_start, lines 152-175: the user is looked up and asked for a language
cmd_start ==
    /\ Len(events) < MaxEvents
    /\ fsm' = "selecting_language"
    /\ events' = Append(events, Event("cmd_start", 1, "none"))
    /\ UNCHANGED <<request_vars, repository_vars, query_vars, offline_vars>>

\* process_language_selection, lines 190-209: an existing user's language is
\* updated, a user that was not found is added
process_language_selection ==
    /\ Len(events) < MaxEvents
    /\ \E l \in Langs, read \in DbStates, write \in DbStates :
        LET user == get_user_with_response_type(users, 1, read)
        IN  /\ users' = IF user # <<>>
                        THEN update_lang(users, 1, l, write)
                        ELSE add_user(users, 1, INITIAL_BALANCE, l, write)
            /\ events' = Append(events, Event("process_language_selection", 1, l))
    /\ fsm' = "selecting_type"
    /\ UNCHANGED <<request_vars, db_log, query_vars, offline_vars>>

\* process_type_selection, lines 224-251: the response type is stored
process_type_selection ==
    /\ Len(events) < MaxEvents
    /\ \E t \in Types, write \in DbStates :
        /\ users' = update_response_type(users, 1, t, write)
        /\ events' = Append(events, Event("process_type_selection", 1, t))
    /\ fsm' = "ready"
    /\ UNCHANGED <<request_vars, db_log, query_vars, offline_vars>>

InitSettings ==
    /\ RequestIdle
    /\ SettingsIdle
    /\ QueryIdle
    /\ OfflineIdle
    /\ users \in InitialUsers
    /\ db_log = <<>>

NextSettings ==
    \/ cmd_start
    \/ process_language_selection
    \/ process_type_selection

SpecSettings == InitSettings /\ [][NextSettings]_vars

\* the table after event i
AfterEvent(i) == IF i = Len(events) THEN users ELSE events[i + 1].before

----------------------------------------------------------------------------
(* The order of the list search_similar_laws returns *)

\* the position of the first raw hit of search call i that has this text
FirstEncountered(i, text) ==
    CHOOSE h \in 1..Len(RawHits(i)) :
        /\ RawHits(i)[h].entity.article_text = text
        /\ \A g \in 1..(h - 1) : RawHits(i)[g].entity.article_text # text

\* C26: the list a single search_similar_laws call returns is sorted
\* non-increasing by 'distance', and entries of equal score keep the order in
\* which their texts were first encountered among the per-query hit lists.
C26_SortedTiesInEncounterOrder ==
    \A i \in CallsOf("search") :
        /\ NonIncreasing(SearchOut(i))
        /\ \A a, b \in 1..Len(SearchOut(i)) :
              (a < b /\ SearchOut(i)[a].distance = SearchOut(i)[b].distance) =>
                  FirstEncountered(i, SearchOut(i)[a].text)
                      < FirstEncountered(i, SearchOut(i)[b].text)

\* C26's case: two returned entries have the same score, and the one whose
\* text was encountered first got that score from a later hit than the other
C26_Witness ==
    \E i \in CallsOf("search") :
        /\ Len(SearchOut(i)) = 2
        /\ SearchOut(i)[1].distance = SearchOut(i)[2].distance
        /\ \E h \in 1..Len(RawHits(i)) :
              /\ RawHits(i)[h].entity.article_text = SearchOut(i)[1].text
              /\ RawHits(i)[h].distance = SearchOut(i)[1].distance
              /\ h > FirstEncountered(i, SearchOut(i)[2].text)
              /\ \A g \in 1..(h - 1) :
                    RawHits(i)[g].entity.article_text = SearchOut(i)[1].text =>
                        RawHits(i)[g].distance < SearchOut(i)[1].distance

----------------------------------------------------------------------------
(* bot/handlers.py: the query handlers process_text_query, process_document
   and process_image. The dispatcher runs the handler of every update as a
   task of its own; a task gives way to the others at its awaits only. *)

COST_BASE == 1
COST_PRO == 2
COST_SEARCH == 1
COST_DOCUMENT == 3
COST_DOCUMENT_PRO == 9
COST_IMAGE == 3
COST_IMAGE_PRO == 9

\* the user sends up to MaxHandlers queries in a behaviour
MaxHandlers == 2

\* get_query_cost, lines 99-107
get_query_cost(response_type, is_document, is_image) ==
    IF is_document
    THEN (IF response_type = "pro" THEN COST_DOCUMENT_PRO ELSE COST_DOCUMENT)
    ELSE IF is_image
    THEN (IF response_type = "pro" THEN COST_IMAGE_PRO ELSE COST_IMAGE)
    ELSE IF response_type = "pro" THEN COST_PRO
    ELSE IF response_type = "search" THEN COST_SEARCH
    ELSE COST_BASE

\* a call of the Telegram API returns or raises
TelegramOutcomes == {"ok", "raise"}

\* what the searcher does with a request: it returns a text, returns the
\* empty string, or raises
SearcherOutcomes == {"text", "empty", "raised"}

\* a handler that was not started: handler is the handler's name, cost and
\* balance its local variables, answer what the searcher did, debit what
\* the debiting update_balance returned, refunds the number of refunding
\* update_balance calls that returned True, delivered whether
\* send_long_message returned, fault whether a database or Telegram call of
\* the handler failed
NewTask ==
    [pc |-> "start", handler |-> "none", cost |-> 0, balance |-> 0,
     answer |-> "none", debit |-> "none", refunds |-> 0,
     delivered |-> FALSE, fault |-> FALSE]

\* the user of the query handlers has a row, with any response type and a
\* balance of nothing, of one of the costs, or the initial one
QueryUsers ==
    {<<[UserRow(1, b, "ru") EXCEPT !.response_type = t]>> :
        b \in {0, COST_BASE, COST_PRO, COST_DOCUMENT, COST_DOCUMENT_PRO,
                INITIAL_BALANCE},
        t \in Types}

InitQuery ==
    /\ RequestIdle
    /\ SettingsIdle
    /\ OfflineIdle
    /\ users \in QueryUsers
    /\ db_log = <<>>
    /\ tasks = [t \in 1..MaxHandlers |-> NewTask]

\* user_repository.update_balance(telegram_id, amount) as the handlers call
\* it (allow_negative is False by default), recorded in db_log
HandlerUpdatesBalance(amount, db, out) ==
    /\ out = update_balance(users, 1, amount, FALSE, db, TRUE)
    /\ users' = out.users
    /\ db_log' = Append(db_log,
          [telegram_id |-> 1, amount |-> amount, allow_negative |-> FALSE,
           before |-> users, after |-> out.users, result |-> out.result])

\* the except block of a handler up to its await (lines 379-382, 455-458,
\* 528-531), and the else branch up to its await (lines 375-377, 451-453,
\* 524-526): the cost is credited, then a message is edited
Refund(t, db, tg_failed, next_pc, searcher_did) ==
    \E out \in {update_balance(users, 1, tasks[t].cost, FALSE, db, TRUE)} :
        /\ HandlerUpdatesBalance(tasks[t].cost, db, out)
        /\ tasks' = [tasks EXCEPT
              ![t].pc = next_pc,
              ![t].answer = searcher_did,
              ![t].refunds = @ + (IF out.result THEN 1 ELSE 0),
              ![t].fault = @ \/ tg_failed \/ db # "ok"]

\* lines 342-359, 401-429, 477-502: the user is read, the cost computed and
\* compared with the balance read; a settings button, a file that is too
\* large or no PDF (not accepted), and a balance below the cost, end the
\* handler
Begin ==
    \E t \in 1..MaxHandlers, h \in Kinds, accepted \in BOOLEAN :
        LET user == get_user_with_response_type(users, 1, "ok")[1]
            query_cost == get_query_cost(user.response_type, h = "doc", h = "image")
        IN  /\ tasks[t].pc = "start"
            /\ \A u \in 1..(t - 1) : tasks[u].pc # "start"
            /\ tasks' = [tasks EXCEPT
                  ![t].handler = h,
                  ![t].cost = query_cost,
                  ![t].balance = user.balance,
                  ![t].pc = IF accepted /\ user.balance >= query_cost
                            THEN "processing" ELSE "done"]
            /\ UNCHANGED <<request_vars, repository_vars, settings_vars, offline_vars>>

\* lines 361-366, 431-436, 504-509: the processing message was sent (a
\* failure to send it ends the handler), the cost is debited and the result
\* of update_balance dropped, the searcher or the file is asked for
ProcessingSent ==
    \E t \in 1..MaxHandlers, tg \in TelegramOutcomes, db \in DbStates :
        /\ tasks[t].pc = "processing"
        /\ IF tg = "raise"
           THEN /\ tasks' = [tasks EXCEPT ![t].pc = "done", ![t].fault = TRUE]
                /\ UNCHANGED repository_vars
           ELSE \E out \in {update_balance(users, 1, -tasks[t].cost, FALSE, db, TRUE)} :
                /\ HandlerUpdatesBalance(-tasks[t].cost, db, out)
                /\ tasks' = [tasks EXCEPT
                      ![t].pc = IF tasks[t].handler = "text"
                                THEN "searcher" ELSE "get_file",
                      ![t].debit = IF out.result THEN "ok" ELSE "failed",
                      ![t].fault = @ \/ db # "ok"]
        /\ UNCHANGED <<request_vars, settings_vars, offline_vars>>

\* lines 436-446, 509-519: bot.get_file returned and the searcher is asked,
\* or it raised
FileFetched ==
    \E t \in 1..MaxHandlers, tg \in TelegramOutcomes, db \in DbStates :
        /\ tasks[t].pc = "get_file"
        /\ IF tg = "raise"
           THEN Refund(t, db, TRUE, "edit_error", tasks[t].answer)
           ELSE /\ tasks' = [tasks EXCEPT ![t].pc = "searcher"]
                /\ UNCHANGED repository_vars
        /\ UNCHANGED <<request_vars, settings_vars, offline_vars>>

\* lines 366-382, 441-458, 514-531: the searcher returned or raised
SearcherReturned ==
    \E t \in 1..MaxHandlers, r \in SearcherOutcomes, db \in DbStates :
        /\ tasks[t].pc = "searcher"
        /\ CASE r = "text" ->
                  /\ tasks' = [tasks EXCEPT ![t].pc = "delete", ![t].answer = r]
                  /\ UNCHANGED repository_vars
             [] r = "empty" -> Refund(t, db, FALSE, "edit_no_response", r)
             [] r = "raised" -> Refund(t, db, FALSE, "edit_error", r)
        /\ UNCHANGED <<request_vars, settings_vars, offline_vars>>

\* lines 373-374, 449-450, 522-523: processing_msg.delete() returned or raised
ProcessingDeleted ==
    \E t \in 1..MaxHandlers, tg \in TelegramOutcomes, db \in DbStates :
        /\ tasks[t].pc = "delete"
        /\ IF tg = "raise"
           THEN Refund(t, db, TRUE, "edit_error", tasks[t].answer)
           ELSE /\ tasks' = [tasks EXCEPT ![t].pc = "send"]
                /\ UNCHANGED repository_vars
        /\ UNCHANGED <<request_vars, settings_vars, offline_vars>>

\* lines 374, 450, 523: send_long_message returned, the response is
\* delivered, or it raised
ResponseSent ==
    \E t \in 1..MaxHandlers, tg \in TelegramOutcomes, db \in DbStates :
        /\ tasks[t].pc = "send"
        /\ IF tg = "raise"
           THEN Refund(t, db, TRUE, "edit_error", tasks[t].answer)
           ELSE /\ tasks' = [tasks EXCEPT ![t].pc = "done", ![t].delivered = TRUE]
                /\ UNCHANGED repository_vars
        /\ UNCHANGED <<request_vars, settings_vars, offline_vars>>

\* lines 377-382, 453-458, 526-531: the edit_text of the else branch
\* returned, or it raised inside the try block
NoResponseEdited ==
    \E t \in 1..MaxHandlers, tg \in TelegramOutcomes, db \in DbStates :
        /\ tasks[t].pc = "edit_no_response"
        /\ IF tg = "raise"
           THEN Refund(t, db, TRUE, "edit_error", tasks[t].answer)
           ELSE /\ tasks' = [tasks EXCEPT ![t].pc = "done"]
                /\ UNCHANGED repository_vars
        /\ UNCHANGED <<request_vars, settings_vars, offline_vars>>

\* lines 382, 458, 531: the edit_text of the except block returned or raised
ErrorEdited ==
    \E t \in 1..MaxHandlers, tg \in TelegramOutcomes :
        /\ tasks[t].pc = "edit_error"
        /\ tasks' = [tasks EXCEPT ![t].pc = "done", ![t].fault = @ \/ tg = "raise"]
        /\ UNCHANGED <<request_vars, repository_vars, settings_vars, offline_vars>>

NextQuery ==
    \/ Begin
    \/ ProcessingSent
    \/ FileFetched
    \/ SearcherReturned
    \/ ProcessingDeleted
    \/ ResponseSent
    \/ NoResponseEdited
    \/ ErrorEdited

SpecQuery == InitQuery /\ [][NextQuery]_vars

\* every handler of the behaviour has finished
AllDone == \A t \in 1..MaxHandlers : tasks[t].pc = "done"

\* no database call and no Telegram call of a handler failed
NoFault == \A t \in 1..MaxHandlers : ~tasks[t].fault

\* the user's balance before the first handler
InitialBalance ==
    IF db_log = <<>> THEN BalanceOf(users, 1) ELSE BalanceOf(db_log[1].before, 1)

\* the costs of the responses delivered by the first n handlers
RECURSIVE DeliveredCost(_)
DeliveredCost(n) ==
    IF n = 0 THEN 0
    ELSE DeliveredCost(n - 1) + (IF tasks[n].delivered THEN tasks[n].cost ELSE 0)

\* C27: for any interleaving at await points of several query handlers of
\* the same user, once all handlers have finished the balance is the initial
\* balance minus the costs of the responses delivered, no response is
\* delivered without a successful debit and no refund is credited for a debit
\* that did not take place; stated for the behaviours in which no database
\* call and no Telegram call fails.
C27_InterleavedHandlersSettle ==
    (AllDone /\ NoFault) =>
        /\ BalanceOf(users, 1) = InitialBalance - DeliveredCost(MaxHandlers)
        /\ \A t \in 1..MaxHandlers :
              /\ tasks[t].delivered => tasks[t].debit = "ok"
              /\ tasks[t].refunds > 0 => tasks[t].debit = "ok"

\* a single handler ran, from its start to its end
SingleHandlerDone ==
    /\ tasks[1].pc = "done"
    /\ \A t \in 2..MaxHandlers : tasks[t].pc = "start"

\* C28: for a single query handler run without interleaving on a user with
\* balance >= cost: if the searcher returns the empty string or raises, the
\* balance after the handler equals the balance before it and the debit is
\* refunded exactly once; if a response is delivered, the balance is lower by
\* exactly the cost; if balance < cost, the searcher is not called and the
\* balance is unchanged; stated for the runs in which every update_balance
\* call returns True.
C28_SingleHandlerSettles ==
    (SingleHandlerDone /\ \A i \in 1..Len(db_log) : db_log[i].result) =>
        /\ (tasks[1].balance >= tasks[1].cost
              /\ tasks[1].answer \in {"empty", "raised"}) =>
                /\ BalanceOf(users, 1) = tasks[1].balance
                /\ tasks[1].refunds = 1
        /\ tasks[1].delivered =>
                BalanceOf(users, 1) = tasks[1].balance - tasks[1].cost
        /\ (tasks[1].handler # "none" /\ tasks[1].balance < tasks[1].cost) =>
                /\ tasks[1].answer = "none"
                /\ BalanceOf(users, 1) = tasks[1].balance

----------------------------------------------------------------------------
(* parser/document_parser.py: DocumentParser.parse_document. A paragraph's
   text is the sequence of its words and whitespace runs, in lower case (the
   patterns ignore case). *)

\* a document has up to MaxDocParagraphs paragraphs
MaxDocParagraphs == 4

\* a run of spaces, tabs and newlines
WS == " "

Numbers == {"1", "2"}

\* the word the section pattern of the language looks for (lines 97-100 and
\* 115-118)
SectionWord(l) == IF l = "ru" THEN "razdel" ELSE "bolum"

\* the paragraphs a document of the language is made of: two article
\* headers, two section headers, two chapter headers, a line of body text and
\* a blank paragraph
ParagraphTexts(l) ==
    {<<"statya", "1">>, <<WS, "statya", WS, "2", WS>>,
     <<SectionWord(l), "I">>, <<SectionWord(l), "II">>,
     <<"glava", "1">>, <<"glava", "2">>,
     <<"text">>, <<WS>>}

\* lines 201-202: strip() and re.sub(r'\s+', ' ', text).strip(); what is left
\* are the words, one space between two of them
CleanText(raw) == SelectSeq(raw, LAMBDA w : w # WS)

\* patterns.article.match(text), lines 93-96 and 110-114
match_article(l, words) ==
    IF l = "ru"
    THEN Len(words) >= 2 /\ words[1] = "statya" /\ words[2] \in Numbers
    ELSE \/ /\ Len(words) >= 3
            /\ words[1] \in Numbers
            /\ words[2] = "-"
            /\ words[3] \in {"berene", "statya"}
         \/ /\ Len(words) >= 2
            /\ words[1] \in {"berene", "statya"}
            /\ words[2] \in Numbers

\* patterns.section.match(text), lines 97-100 and 115-118
match_section(l, words) ==
    IF l = "ru"
    THEN Len(words) >= 2 /\ words[1] = "razdel"
    ELSE \E i \in 1..Len(words) : words[i] = "bolum"

\* patterns.chapter.match(text), lines 101-104 and 119-122
match_chapter(l, words) ==
    IF l = "ru"
    THEN Len(words) >= 2 /\ words[1] = "glava"
    ELSE \E i \in 1..Len(words) : words[i] = "glava"

\* lines 105 and 123
no_section_label(l) == IF l = "ru" THEN <<"net", "razdela">> ELSE <<"bolum", "zhok">>

\* lines 106 and 124
no_chapter_label(l) == IF l = "ru" THEN <<"net", "glavy">> ELSE <<"glava", "zhok">>

\* the local variables of parse_document before the loop, lines 191-197
ParserStart(l) ==
    [articles |-> <<>>,
     current_article_text |-> <<>>,
     current_article_title |-> <<>>,
     current_section |-> no_section_label(l),
     current_chapter |-> no_chapter_label(l),
     article_started |-> FALSE]

\* the Article appended at lines 214-221 and 247-254: the section and the
\* chapter are the current ones when the article is appended; the text is
\* the sequence of its lines
SavedArticle(st, l) ==
    [source_doc |-> "file.docx",
     section |-> st.current_section,
     chapter |-> st.current_chapter,
     title |-> st.current_article_title,
     text |-> st.current_article_text,
     language |-> l]

\* one pass of the loop body, lines 200-243
ParseParagraph(st, raw, l) ==
    LET words == CleanText(raw)
    IN  IF words = <<>> THEN st
        ELSE IF match_article(l, words)
        THEN [st EXCEPT
                 !.articles = IF st.article_started
                              THEN Append(@, SavedArticle(st, l)) ELSE @,
                 !.article_started = TRUE,
                 !.current_article_title = words,
                 !.current_article_text = <<words>>]
        ELSE IF match_section(l, words)
        THEN [st EXCEPT !.current_section = words]
        ELSE IF match_chapter(l, words)
        THEN [st EXCEPT !.current_chapter = words]
        ELSE IF st.article_started
        THEN [st EXCEPT !.current_article_text = Append(@, words)]
        ELSE IF l = "kg" /\ st.current_chapter # no_chapter_label(l)
        THEN [st EXCEPT !.current_chapter = @ \o words]
        ELSE IF l = "kg" /\ st.current_section # no_section_label(l)
        THEN [st EXCEPT !.current_section = @ \o words]
        ELSE st

\* the loop over doc.paragraphs, line 199
RECURSIVE ParseLoop(_, _, _)
ParseLoop(st, raws, l) ==
    IF raws = <<>> THEN st
    ELSE ParseLoop(ParseParagraph(st, Head(raws), l), Tail(raws), l)

\* parse_document, lines 184-256: no articles when the file does not load,
\* else the articles of the loop and the last article
parse_document(raws, loads, l) ==
    IF ~loads THEN <<>>
    ELSE LET st == ParseLoop(ParserStart(l), raws, l)
         IN  IF st.article_started
             THEN Append(st.articles, SavedArticle(st, l))
             ELSE st.articles

InitParser ==
    /\ RequestIdle
    /\ RepositoryIdle
    /\ SettingsIdle
    /\ QueryIdle
    /\ SenderIdle
    /\ language \in Langs
    /\ doc_paragraphs \in SeqsUpTo(ParagraphTexts(language), MaxDocParagraphs)
    /\ doc_loads \in BOOLEAN
    /\ articles = <<>>
    /\ parsed = FALSE

\* one call of parse_document
ParseDocument ==
    /\ ~parsed
    /\ articles' = parse_document(doc_paragraphs, doc_loads, language)
    /\ parsed' = TRUE
    /\ UNCHANGED <<request_vars, repository_vars, settings_vars, query_vars,
                   sender_vars, doc_paragraphs, doc_loads, language>>

SpecParser == InitParser /\ [][ParseDocument]_vars

\* paragraph p of the document, cleaned
Cleaned(p) == CleanText(doc_paragraphs[p])

IsArticleHeader(p) == Cleaned(p) # <<>> /\ match_article(language, Cleaned(p))

IsSectionHeader(p) ==
    /\ Cleaned(p) # <<>>
    /\ ~match_article(language, Cleaned(p))
    /\ match_section(language, Cleaned(p))

IsChapterHeader(p) ==
    /\ Cleaned(p) # <<>>
    /\ ~match_article(language, Cleaned(p))
    /\ ~match_section(language, Cleaned(p))
    /\ match_chapter(language, Cleaned(p))

ArticleHeaders == {p \in 1..Len(doc_paragraphs) : IsArticleHeader(p)}

\* the position of the k-th article header
HeaderAt(k) ==
    CHOOSE p \in ArticleHeaders :
        Cardinality({q \in ArticleHeaders : q <= p}) = k

\* the largest member of a non-empty set of positions
Latest(ps) == CHOOSE p \in ps : \A q \in ps : q <= p

\* the section header that is the most recent one before paragraph p
SectionBefore(p) ==
    LET ps == {q \in 1..(p - 1) : IsSectionHeader(q)}
    IN  IF ps = {} THEN no_section_label(language) ELSE Cleaned(Latest(ps))

\* the chapter header that is the most recent one before paragraph p
ChapterBefore(p) ==
    LET ps == {q \in 1..(p - 1) : IsChapterHeader(q)}
    IN  IF ps = {} THEN no_chapter_label(language) ELSE Cleaned(Latest(ps))

\* the label is the header; in a Kyrgyz document the lines that continue a
\* header may follow it in the label
LabelledWith(label, header) ==
    \/ label = header
    \/ language = "kg" /\ IsPrefix(header, label)

\* C29: parse_document emits one Article per article-header paragraph, in
\* document order, and each Article is labelled with the section header and
\* the chapter header that were the most recent ones before the article's
\* own header (the no-section and no-chapter labels when none precedes it):
\* a section or chapter header after the article's body does not change its
\* labels.
C29_ArticlesLabelledByPrecedingHeaders ==
    (parsed /\ doc_loads) =>
        /\ Len(articles) = Cardinality(ArticleHeaders)
        /\ \A k \in 1..Len(articles) :
              /\ articles[k].title = Cleaned(HeaderAt(k))
              /\ LabelledWith(articles[k].section, SectionBefore(HeaderAt(k)))
              /\ LabelledWith(articles[k].chapter, ChapterBefore(HeaderAt(k)))

\* one Article per article header, in document order, titled by its header
OneArticlePerHeader ==
    (parsed /\ doc_loads) =>
        /\ Len(articles) = Cardinality(ArticleHeaders)
        /\ \A k \in 1..Len(articles) : articles[k].title = Cleaned(HeaderAt(k))

\* every Article carries the labels that were current at the next article
\* header, or at the end of the document for the last Article
LabelledAtNextHeader ==
    (parsed /\ doc_loads) =>
        \A k \in 1..Len(articles) :
            LET upto == IF k < Len(articles) THEN HeaderAt(k + 1)
                        ELSE Len(doc_paragraphs) + 1
            IN  /\ LabelledWith(articles[k].section, SectionBefore(upto))
                /\ LabelledWith(articles[k].chapter, ChapterBefore(upto))

----------------------------------------------------------------------------
(* bot/handlers.py: send_long_message. A text is the sequence of its
   characters. *)

\* a text has up to MaxTextLen characters
MaxTextLen == 5
\* max_length ranges over 1..MaxMessageLimit
MaxMessageLimit == 3

Characters == {"a", "b"}

\* a variant of Slice: text[from:to + 1]
SliceInclusive(s, from, to) ==
    SubSeq(s, from + 1, IF to + 1 < Len(s) THEN to + 1 ELSE Len(s))

\* Python's s[from:to] for 0 <= from <= to
Slice(s, from, to) ==
    SubSeq(s, from + 1, IF to < Len(s) THEN to ELSE Len(s))

InitSender ==
    /\ RequestIdle
    /\ RepositoryIdle
    /\ SettingsIdle
    /\ QueryIdle
    /\ ParserIdle
    /\ long_text \in SeqsUpTo(Characters, MaxTextLen)
    /\ max_length \in 1..MaxMessageLimit
    /\ offset = 0
    /\ sent = <<>>
    /\ sender_pc = "called"

\* lines 687-689: a text of at most max_length characters is sent as it is;
\* message.answer returns or raises
SendWhole ==
    /\ sender_pc = "called"
    /\ Len(long_text) <= max_length
    /\ \E tg \in TelegramOutcomes :
        IF tg = "ok"
        THEN /\ sent' = Append(sent, long_text)
             /\ sender_pc' = "done"
        ELSE /\ sent' = sent
             /\ sender_pc' = "raised"
    /\ UNCHANGED <<request_vars, repository_vars, settings_vars, query_vars,
                   parser_vars, long_text, max_length, offset>>

\* lines 692-694: one pass of the loop over range(0, len(text), max_length)
SendChunk ==
    /\ \/ sender_pc = "called" /\ Len(long_text) > max_length
       \/ sender_pc = "loop"
    /\ \E tg \in TelegramOutcomes :
        LET chunk == Slice(long_text, offset, offset + max_length)
        IN  IF tg = "ok"
            THEN /\ sent' = Append(sent, chunk)
                 /\ offset' = offset + max_length
                 /\ sender_pc' = IF offset + max_length < Len(long_text)
                                 THEN "loop" ELSE "done"
            ELSE /\ sent' = sent
                 /\ offset' = offset
                 /\ sender_pc' = "raised"
    /\ UNCHANGED <<request_vars, repository_vars, settings_vars, query_vars,
                   parser_vars, long_text, max_length>>

NextSender == SendWhole \/ SendChunk

SpecSender == InitSender /\ [][NextSender]_vars

\* C30: for every text and every max_length >= 1, a send_long_message that
\* returns has sent the text as messages in order such that each message has
\* at most max_length characters and the concatenation of the messages is
\* the text, and a text of at most max_length characters was sent as exactly
\* one message.
C30_ChunksRebuildText ==
    sender_pc = "done" =>
        /\ \A m \in 1..Len(sent) : Len(sent[m]) <= max_length
        /\ Flatten(sent) = long_text
        /\ Len(long_text) <= max_length => Len(sent) = 1

\* C30's case: a text was sent in three messages, the last one shorter than
\* max_length
C30_Witness ==
    /\ sender_pc = "done"
    /\ Len(sent) = 3
    /\ Len(sent[3]) < max_length
    /\ Len(long_text) = MaxTextLen

\* a text of at most max_length characters, the empty one included, was sent
\* as one message
ShortTextSentWhole ==
    /\ sender_pc = "done"
    /\ long_text = <<>>
    /\ sent = <<long_text>>

====
